---- MODULE Spec2Model ----
(***************************************************************************)
(* The concurrent batch calls of utils.py: execute_discovery_tasks,        *)
(* discover_across_clouds and execute_items_operation.  Each call is run   *)
(* by one calling thread that submits units of work to a                   *)
(* concurrent.futures.ThreadPoolExecutor and then iterates as_completed.   *)
(* One behaviour of the model is one call of one of the three functions;   *)
(* Init chooses the function and its arguments.                            *)
(***************************************************************************)
EXTENDS Integers, Sequences, FiniteSets, TLC

\* Bounds of the model.
MaxTasks == 3      \* longest task list of execute_discovery_tasks
MaxItems == 2      \* longest item list of execute_items_operation
MaxWorkers == 2    \* largest max_workers argument
MaxSize == 2       \* longest list a discovery function returns
MaxTime == 1       \* largest value of the logical clock behind datetime.now()
MaxCands == 2      \* longest candidate list of find_items_by_identifier
MaxExpr == 3       \* longest identifiers expression, in characters
MaxAccounts == 2   \* longest list of configured profiles, subscriptions or projects
MaxRegions == 2    \* longest region list of an AWS profile

VARIABLES
    fn,               \* the function being called
    nunits,           \* len(tasks) / len(cloud_discovery_functions) / len(items)
    max_workers,      \* the max_workers argument
    items,            \* execute_items_operation: the items argument (cloud tags)
    cloud_operations, \* execute_items_operation: keys of the handler map
    confirm,          \* execute_items_operation: the confirm argument
    pc,               \* position of the calling thread
    i,                \* index of the next entry the submitting loop looks at
    futures,          \* units submitted so far (keys of the futures dict)
    queue,            \* executor work queue (FIFO) of units not yet started
    running,          \* units a worker thread is executing
    outcome,          \* per unit: what its future holds once done
    yielded,          \* futures as_completed has handed to the loop body
    all_resources,    \* the accumulated result list
    completed_tasks,  \* execute_discovery_tasks counter
    processed_count,  \* execute_items_operation counter
    success_count,    \* execute_items_operation counter
    log,              \* the lines written to the logger, in order
    stats,            \* discover_across_clouds: the stats dict
    now,              \* the last value datetime.now() returned
    confirm_calls,    \* history: the calls made to confirm_action
    calls,            \* history: the units whose callable a worker has invoked
    identifiers,      \* find_items_by_identifier: the identifiers argument
    matching_items,   \* find_items_by_identifier: the list returned
    config,           \* build_discovery_tasks: the configured accounts and what
                      \* listing their regions answers, and the arguments
    tasks,            \* build_discovery_tasks: the task list returned
    args,             \* vm.py / vpc.py: the parsed command line
    inventory,        \* the inventory file: its state and the records it holds
    operation,        \* vm.py / vpc.py: what the run has done
    vpcs              \* refresh_all: the vm_count of each network discovered

inputVars == <<fn, nunits, max_workers, items, cloud_operations, confirm, identifiers,
               config>>
poolVars == <<futures, queue, running, outcome, yielded>>
accVars == <<all_resources, completed_tasks, processed_count, success_count, log, stats>>
timeVars == <<now>>
resolverVars == <<matching_items, tasks>>
flowVars == <<args, inventory, operation, vpcs>>
vars == <<inputVars, pc, i, poolVars, accVars, timeVars, confirm_calls, calls, resolverVars,
          flowVars>>

EDT == "execute_discovery_tasks"
DAC == "discover_across_clouds"
EIO == "execute_items_operation"

\* csp.vm.discover and csp.vpc.discover pass the three providers aws, azure, gcp.
NumClouds == 3
\* discover_across_clouds: max_workers: int = 3
DefaultCloudWorkers == 3

Units == 1..nunits
Times == 0..MaxTime

----------------------------------------------------------------------------
\* What a submitted callable can do: return a value, raise an Exception,
\* or raise SystemExit (sys.exit), which is a BaseException but no Exception.

Msgs == {"timeout", "denied"}

NoOutcome == [kind |-> "none", size |-> 0, msg |-> ""]
Returned(s) == [kind |-> "ok", size |-> s, msg |-> ""]
Raised(m) == [kind |-> "exc", size |-> 0, msg |-> m]
Exited == [kind |-> "exit", size |-> 0, msg |-> "1"]
ReturnedBool(b) == [kind |-> IF b THEN "true" ELSE "false", size |-> 0, msg |-> ""]

\* Mutant: no handler, every exception propagates.
except_nothing(kind) == FALSE

\* `except Exception` (utils.py:420, 502, 549; awssvc/vpc.py:41, 149) catches an
\* ordinary exception and lets SystemExit pass.
except_Exception(kind) == kind = "exc"

\* load_from_json: the parsed list, or sys.exit(1) when the file is missing or
\* holds invalid JSON.
FileStates == {"missing", "valid", "invalid"}
load_from_json(file) == IF file = "valid" THEN "ok" ELSE "exit"

\* get_resource_counts_from_inventory: reads the VM inventory only if the file
\* exists, inside try/except Exception.
get_resource_counts_from_inventory(file) ==
    IF file = "missing" THEN "ok"
    ELSE IF except_Exception(load_from_json(file)) THEN "ok"
    ELSE load_from_json(file)

\* What the provider API answers to a listing call.
ApiResults == {Returned(s) : s \in 0..MaxSize} \cup {Raised(m) : m \in Msgs}

\* get_vpcs: one VPC discovery task.  API errors are caught and give the list
\* built so far; the inventory is read once per VPC found.
get_vpcs(file, api) ==
    IF api.kind = "exc" THEN Returned(0)
    ELSE IF api.size = 0 THEN Returned(0)
    ELSE IF get_resource_counts_from_inventory(file) = "ok" THEN Returned(api.size)
    ELSE IF except_Exception(get_resource_counts_from_inventory(file)) THEN Returned(0)
    ELSE Exited

\* task['func'](*task['args']): any callable, get_vpcs among them.
TaskOutcomes ==
    ApiResults \cup {get_vpcs(f, a) : f \in FileStates, a \in ApiResults}

\* Mutant: discover() hands on the exception of a failed task.
discover_raising(task_outcome) ==
    IF task_outcome.kind = "exit" THEN Exited
    ELSE IF task_outcome.kind = "ok" THEN Returned(task_outcome.size)
    ELSE Raised(task_outcome.msg)

\* A provider entry-point discover(): any zero-argument callable; the
\* repository's own return execute_discovery_tasks(tasks), which hands on the
\* SystemExit of a task.
discover(task_outcome) ==
    IF task_outcome.kind = "exit" THEN Exited
    ELSE IF task_outcome.kind = "ok" THEN Returned(task_outcome.size)
    ELSE Returned(0)

ProviderOutcomes ==
    ApiResults \cup {discover(o) : o \in TaskOutcomes}

\* cloud_operations[cloud](item): returns a bool or raises.
HandlerOutcomes == {ReturnedBool(b) : b \in BOOLEAN} \cup {Raised(m) : m \in Msgs}

CallOutcomes ==
    IF fn = EDT THEN TaskOutcomes
    ELSE IF fn = DAC THEN ProviderOutcomes
    ELSE HandlerOutcomes

----------------------------------------------------------------------------
\* Items and log lines.

\* The list a discovery call of unit u returned.
resources(u) == [k \in 1..outcome[u].size |-> <<u, k>>]

ItemTags == {"aws", "AWS", "oci"}
KeySets == {{"aws"}, {"AWS"}}
Responses == {"y", "Y", "n"}

lower(s) == IF s = "AWS" THEN "aws" ELSE IF s = "Y" THEN "y" ELSE s
upper(s) ==
    IF s = "aws" THEN "AWS" ELSE IF s = "oci" THEN "OCI"
    ELSE IF s = "azure" THEN "AZURE" ELSE IF s = "gcp" THEN "GCP" ELSE s

Line(what, u, k, total, count, msg) ==
    [line |-> what, unit |-> u, k |-> k, total |-> total, count |-> count, msg |-> msg]

\* dict.update
update(d, e) == e @@ d

ALL == 0

----------------------------------------------------------------------------
\* ThreadPoolExecutor

done(u) == outcome[u] # NoOutcome

\* Mutant: the work item is queued twice.
submit_twice(u) ==
    /\ queue' = queue \o <<u, u>>
    /\ futures' = futures \cup {u}

\* executor.submit(callable): the work item goes to the FIFO work queue.
submit(u) ==
    /\ queue' = Append(queue, u)
    /\ futures' = futures \cup {u}

\* Mutant: a single worker thread runs the calls one after another.
worker_single == running = {}

\* Mutant: a thread per work item, whatever max_workers.
worker_unbounded == TRUE

\* A worker thread exists for each of at most max_workers work items.
worker_available == Cardinality(running) < max_workers

\* A worker thread takes the next work item and starts the call.
WorkerStart ==
    /\ queue # << >>
    /\ worker_available
    /\ running' = running \cup {Head(queue)}
    /\ queue' = Tail(queue)
    /\ calls' = Append(calls, Head(queue))
    /\ UNCHANGED <<inputVars, pc, i, futures, outcome, yielded, accVars, timeVars,
                   confirm_calls, resolverVars, flowVars>>

\* Mutant: the worker thread itself counts its completion.
WorkerFinish_merging(u, o) ==
    /\ u \in running
    /\ running' = running \ {u}
    /\ outcome' = [outcome EXCEPT ![u] = o]
    /\ completed_tasks' = completed_tasks + 1
    /\ processed_count' = processed_count + 1
    /\ UNCHANGED <<inputVars, pc, i, futures, queue, yielded, all_resources, success_count,
                   log, stats, now, confirm_calls, calls, resolverVars, flowVars>>

\* The call returns or raises; the worker stores the result or the exception
\* (any BaseException) in the future.
WorkerFinish(u, o) ==
    /\ u \in running
    /\ running' = running \ {u}
    /\ outcome' = [outcome EXCEPT ![u] = o]
    /\ UNCHANGED <<inputVars, pc, i, futures, queue, yielded, accVars, now, confirm_calls, calls, resolverVars, flowVars>>

\* Mutant: as_completed hands out a future again.
as_completed_again(u) == u \in futures /\ done(u)

\* as_completed(futures) can yield any future that is done and not yet yielded.
as_completed(u) == u \in futures /\ done(u) /\ u \notin yielded
\* Mutant: the loop stops after the first completed future.
as_completed_first == yielded # {}

\* as_completed(futures) is exhausted once every future was yielded.
as_completed_exhausted == yielded = futures

\* Leaving the with block: executor.shutdown(wait=True) joins the workers.
shutdown_wait == \A u \in futures : done(u)

\* datetime.now(): the clock does not go backwards; t is the value read.
datetime_now(t) ==
    /\ t \in now..MaxTime
    /\ now' = t

\* An exception that no handler of the function catches leaves the with block
\* (which joins the workers) and then the function.
Propagate ==
    /\ pc = "unwind"
    /\ shutdown_wait
    /\ pc' = "raised"
    /\ UNCHANGED <<inputVars, i, poolVars, accVars, timeVars, confirm_calls, calls, resolverVars, flowVars>>

----------------------------------------------------------------------------
\* execute_discovery_tasks(tasks, max_workers)

\* Mutant: the result list is assigned instead of extended.
extend_assign(list, u) == resources(u)

\* Mutant: the items of a task are added one by one at the front of the block.
extend_reversed(list, u) ==
    list \o [k \in 1..Len(resources(u)) |-> resources(u)[Len(resources(u)) + 1 - k]]

\* all_resources.extend(resources)
extend(list, u) == list \o resources(u)

\* The progress line of one completed task: "found n" or "Error - e".
progress_line(u, k) ==
    IF outcome[u].kind = "ok"
    THEN Line("found", u, k, nunits, outcome[u].size, "")
    ELSE Line("error", u, k, nunits, 0, outcome[u].msg)

\* if not tasks: return all_resources
EDT_Entry ==
    /\ fn = EDT
    /\ pc = "entry"
    /\ pc' = IF nunits = 0 THEN "returned" ELSE "submit"
    /\ UNCHANGED <<inputVars, i, poolVars, accVars, timeVars, confirm_calls, calls, resolverVars, flowVars>>

\* executor.submit(task['func'], *task['args']) for task in tasks
EDT_Submit ==
    /\ fn = EDT
    /\ pc = "submit"
    /\ submit(i)
    /\ i' = i + 1
    /\ pc' = IF i = nunits THEN "collect" ELSE "submit"
    /\ UNCHANGED <<inputVars, running, outcome, yielded, accVars, now, confirm_calls, calls, resolverVars, flowVars>>

\* One iteration of `for future in as_completed(future_to_context)`.
EDT_Collect(u) ==
    /\ fn = EDT
    /\ pc = "collect"
    /\ as_completed(u)
    /\ yielded' = yielded \cup {u}
    /\ completed_tasks' = completed_tasks + 1
    /\ IF outcome[u].kind = "ok"
       THEN /\ all_resources' = extend(all_resources, u)
            /\ log' = Append(log, progress_line(u, completed_tasks + 1))
            /\ pc' = pc
       ELSE IF except_Exception(outcome[u].kind)
       THEN /\ log' = Append(log, progress_line(u, completed_tasks + 1))
            /\ UNCHANGED <<all_resources, pc>>
       ELSE /\ pc' = "unwind"
            /\ UNCHANGED <<all_resources, log>>
    /\ UNCHANGED <<inputVars, i, futures, queue, running, outcome, processed_count,
                   success_count, stats, timeVars, confirm_calls, calls, resolverVars, flowVars>>

\* return all_resources
EDT_Return ==
    /\ fn = EDT
    /\ pc = "collect"
    /\ as_completed_exhausted
    /\ shutdown_wait
    /\ pc' = "returned"
    /\ UNCHANGED <<inputVars, i, poolVars, accVars, timeVars, confirm_calls, calls, resolverVars, flowVars>>

----------------------------------------------------------------------------
\* discover_across_clouds(cloud_discovery_functions, max_workers)
\* Mutant: count is the length of the accumulated list.
success_stats_cumulative(rec, end_time, u) ==
    update(rec, [end_time |-> end_time,
                 duration |-> end_time - rec.start_time,
                 count |-> Len(all_resources),
                 status |-> "success"])

\* stats[cloud].update({...}) for a call that returned / that raised.
success_stats(rec, end_time, u) ==
    update(rec, [end_time |-> end_time,
                 duration |-> end_time - rec.start_time,
                 count |-> Len(resources(u)),
                 status |-> "success"])
\* Mutant: duration is start_time - end_time.
failed_stats_negative(rec, end_time, u) ==
    update(rec, [end_time |-> end_time,
                 duration |-> rec.start_time - end_time,
                 count |-> 0,
                 status |-> "failed",
                 error |-> outcome[u].msg])

failed_stats(rec, end_time, u) ==
    update(rec, [end_time |-> end_time,
                 duration |-> end_time - rec.start_time,
                 count |-> 0,
                 status |-> "failed",
                 error |-> outcome[u].msg])
\* Mutant: the overall status is failed when a provider failed.
overall_stats_failed(rec, end_time) ==
    update(rec, [end_time |-> end_time,
                 duration |-> end_time - rec.start_time,
                 count |-> Len(all_resources),
                 status |-> IF \E u \in Units : stats[u].status = "failed"
                            THEN "failed" ELSE "success"])

\* stats['all'].update({...})
overall_stats(rec, end_time) ==
    update(rec, [end_time |-> end_time,
                 duration |-> end_time - rec.start_time,
                 count |-> Len(all_resources),
                 status |-> "success"])

\* stats['all'] = {'start_time': datetime.now()}
DAC_Entry ==
    /\ fn = DAC
    /\ pc = "entry"
    /\ \E t \in Times :
          /\ datetime_now(t)
          /\ stats' = (ALL :> [start_time |-> t]) @@ stats
    /\ pc' = IF nunits = 0 THEN "collect" ELSE "stamp"
    /\ UNCHANGED <<inputVars, i, poolVars, all_resources, completed_tasks,
                   processed_count, success_count, log, confirm_calls, calls, resolverVars, flowVars>>

\* start_time = datetime.now(); stats[cloud_name] = {'start_time': start_time}
DAC_Stamp ==
    /\ fn = DAC
    /\ pc = "stamp"
    /\ \E t \in Times :
          /\ datetime_now(t)
          /\ stats' = (i :> [start_time |-> t]) @@ stats
    /\ pc' = "submit"
    /\ UNCHANGED <<inputVars, i, poolVars, all_resources, completed_tasks,
                   processed_count, success_count, log, confirm_calls, calls, resolverVars, flowVars>>

\* future = executor.submit(discover_func)
DAC_Submit ==
    /\ fn = DAC
    /\ pc = "submit"
    /\ submit(i)
    /\ i' = i + 1
    /\ pc' = IF i = nunits THEN "collect" ELSE "stamp"
    /\ UNCHANGED <<inputVars, running, outcome, yielded, accVars, now, confirm_calls, calls, resolverVars, flowVars>>

\* One iteration of `for future in as_completed(futures)`.
DAC_Collect(u) ==
    /\ fn = DAC
    /\ pc = "collect"
    /\ as_completed(u)
    /\ yielded' = yielded \cup {u}
    /\ \E end_time \in Times :
          /\ datetime_now(end_time)
          /\ IF outcome[u].kind = "ok"
             THEN /\ all_resources' = extend(all_resources, u)
                  /\ stats' = [stats EXCEPT ![u] = success_stats(stats[u], end_time, u)]
                  /\ pc' = pc
             ELSE IF except_Exception(outcome[u].kind)
             THEN /\ stats' = [stats EXCEPT ![u] = failed_stats(stats[u], end_time, u)]
                  /\ UNCHANGED <<all_resources, pc>>
             ELSE /\ pc' = "unwind"
                  /\ UNCHANGED <<all_resources, stats>>
    /\ UNCHANGED <<inputVars, i, futures, queue, running, outcome, completed_tasks,
                   processed_count, success_count, log, confirm_calls, calls, resolverVars, flowVars>>

\* After the with block: the overall record, then return {'items', 'stats'}.
DAC_Return ==
    /\ fn = DAC
    /\ pc = "collect"
    /\ as_completed_exhausted
    /\ shutdown_wait
    /\ \E end_time \in Times :
          /\ datetime_now(end_time)
          /\ stats' = [stats EXCEPT ![ALL] = overall_stats(stats[ALL], end_time)]
    /\ pc' = "returned"
    /\ UNCHANGED <<inputVars, i, poolVars, all_resources, completed_tasks,
                   processed_count, success_count, log, confirm_calls, calls, resolverVars, flowVars>>

----------------------------------------------------------------------------
\* execute_items_operation(items, cloud_operations, action_description,
\*                         confirm, max_workers)

total_count == Len(items)

\* Mutant: whatever key is pressed counts as yes.
confirm_action_any(response) == TRUE

\* confirm_action's answer: getch().lower() == 'y'
confirm_action(response) == lower(response) = "y"

\* if not items: return -- and, without confirm, straight to the dispatch.
EIO_Entry ==
    /\ fn = EIO
    /\ pc = "entry"
    /\ IF items = << >>
       THEN /\ log' = Append(log, Line("no items", 0, 0, 0, 0, ""))
            /\ pc' = "returned"
       ELSE /\ pc' = IF confirm THEN "confirm" ELSE "submit"
            /\ log' = IF confirm THEN log
                      ELSE Append(log, Line("start", 0, 0, total_count, 0, ""))
    /\ UNCHANGED <<inputVars, i, poolVars, all_resources, completed_tasks,
                   processed_count, success_count, stats, timeVars, confirm_calls, calls, resolverVars, flowVars>>

\* Mutant: a refusal does not stop the operation.
cancelled_never(confirmed) == FALSE

\* `if confirm and not confirm_action(...)`: the answer that cancels.
cancelled(confirmed) == ~confirmed

\* if confirm and not confirm_action(items, ...): return
EIO_Confirm(response) ==
    /\ fn = EIO
    /\ pc = "confirm"
    /\ confirm_calls' = Append(confirm_calls, [items |-> items, response |-> response,
                                                result |-> confirm_action(response)])
    /\ IF cancelled(confirm_action(response))
       THEN /\ pc' = "returned"
            /\ log' = Append(log, Line("cancelled", 0, 0, 0, 0, ""))
       ELSE /\ pc' = "submit"
            /\ log' = Append(log, Line("start", 0, 0, total_count, 0, ""))
    /\ UNCHANGED <<inputVars, i, poolVars, all_resources, completed_tasks,
                   processed_count, success_count, stats, timeVars, calls, resolverVars, flowVars>>

\* Mutant: the tag is looked up as it is.
has_handler_exact(item) == item \in cloud_operations

\* cloud = item.get('cloud', '').lower(); cloud in cloud_operations
has_handler(item) == lower(item) \in cloud_operations

\* One iteration of `for item in items`: submit the handler or warn.
EIO_Submit ==
    /\ fn = EIO
    /\ pc = "submit"
    /\ IF has_handler(items[i])
       THEN /\ submit(i)
            /\ UNCHANGED log
       ELSE /\ log' = Append(log, Line("unknown cloud", i, 0, 0, 0, lower(items[i])))
            /\ UNCHANGED <<futures, queue>>
    /\ i' = i + 1
    /\ pc' = IF i = nunits THEN "collect" ELSE "submit"
    /\ UNCHANGED <<inputVars, running, outcome, yielded, all_resources,
                   completed_tasks, processed_count, success_count, stats, now, confirm_calls, calls, resolverVars, flowVars>>

\* Mutant: the progress line shows the item's position in the list.
progress_entry_by_position(u, n) == Line("progress", u, u, total_count, 0, upper(items[u]))

\* logger.info(f"[{processed_count}/{total_count}] {cloud} - {name}")
progress_entry(u, n) == Line("progress", u, n, total_count, 0, upper(items[u]))

\* Mutant: every call that returned counts as a success.
succeeded_any(kind) == kind \in {"true", "false"}

\* `if future.result():` -- the handler returned a true value.
succeeded(kind) == kind = "true"

\* One iteration of `for future in as_completed(future_to_item)`.
EIO_Collect(u) ==
    /\ fn = EIO
    /\ pc = "collect"
    /\ as_completed(u)
    /\ yielded' = yielded \cup {u}
    /\ processed_count' = processed_count + 1
    /\ IF outcome[u].kind \in {"true", "false"}
       THEN /\ success_count' = success_count + (IF succeeded(outcome[u].kind) THEN 1 ELSE 0)
            /\ log' = Append(log, progress_entry(u, processed_count + 1))
            /\ pc' = pc
       ELSE IF except_Exception(outcome[u].kind)
       THEN /\ log' = log \o <<progress_entry(u, processed_count + 1),
                               Line("error", u, 0, 0, 0, outcome[u].msg)>>
            /\ UNCHANGED <<success_count, pc>>
       ELSE /\ log' = Append(log, progress_entry(u, processed_count + 1))
            /\ pc' = "unwind"
            /\ UNCHANGED success_count
    /\ UNCHANGED <<inputVars, i, futures, queue, running, outcome, all_resources,
                   completed_tasks, stats, timeVars, confirm_calls, calls, resolverVars, flowVars>>

\* After the with block: the final tally line, then return.
EIO_Return ==
    /\ fn = EIO
    /\ pc = "collect"
    /\ as_completed_exhausted
    /\ shutdown_wait
    /\ log' = Append(log, Line("completed", 0, success_count, total_count, 0, ""))
    /\ pc' = "returned"
    /\ UNCHANGED <<inputVars, i, poolVars, all_resources, completed_tasks,
                   processed_count, success_count, stats, timeVars, confirm_calls, calls, resolverVars, flowVars>>

----------------------------------------------------------------------------
\* build_discovery_tasks(get_resource_func, resource_name) of awssvc/session.py,
\* azuresvc/session.py and gcpsvc/session.py.

BDT_AWS == "awssvc.build_discovery_tasks"
BDT_AZURE == "azuresvc.build_discovery_tasks"
BDT_GCP == "gcpsvc.build_discovery_tasks"

AccountNames == {"dev", "prod"}
RegionNames == {"us", "eu"}

\* What a listing call (get_profiles, get_subscriptions, get_projects,
\* get_regions) answers: a list, or an exception.
Listing(l) == [kind |-> "ok", list |-> l]
ListingError == [kind |-> "exc", list |-> << >>]
Listings(S, n) == {Listing(l) : l \in UNION {[1..m -> S] : m \in 0..n}} \cup {ListingError}

\* The arguments the repository's discover() functions pass.
BuildArgs == {[func |-> "get_vms", resource |-> "VM"], [func |-> "get_vpcs", resource |-> "VPC"]}

\* One task dict: 'func', 'args' and the 'context' of cloud, location, resource.
Task(cfg, cloud, task_args, location) ==
    [func |-> cfg.func, args |-> task_args, cloud |-> cloud, location |-> location,
     resource |-> cfg.resource]

\* Mutant: only the first region of a profile gets a task.
region_tasks_first(cfg, profile, regions) ==
    [j \in 1..(IF regions = << >> THEN 0 ELSE 1) |->
        Task(cfg, "aws", <<profile, regions[j]>>, <<profile, regions[j]>>)]

\* for region in regions: tasks.append({...})
region_tasks(cfg, profile, regions) ==
    [j \in 1..Len(regions) |->
        Task(cfg, "aws", <<profile, regions[j]>>, <<profile, regions[j]>>)]

\* Mutant: an error of get_regions ends the task building.
regions_error_aborts(acc, profile) ==
    [acc EXCEPT !.printed = Append(@, Line("error building tasks", 0, 0, 0, 0, "aws")),
                !.aborted = TRUE]

\* except Exception as e: print(f"AWS {profile}: Error getting regions - {e}")
regions_error(acc, profile) ==
    [acc EXCEPT !.printed = Append(@, Line("error getting regions", 0, 0, 0, 0, profile))]

RECURSIVE aws_profiles_loop(_, _, _)
\* `for profile in profiles` from position k on.
aws_profiles_loop(acc, cfg, k) ==
    IF k > Len(cfg.accounts.list) \/ acc.aborted THEN acc
    ELSE LET profile == cfg.accounts.list[k]
             regions == cfg.regions[profile]
         IN aws_profiles_loop(
                IF regions.kind = "ok"
                THEN [acc EXCEPT !.tasks = @ \o region_tasks(cfg, profile, regions.list)]
                ELSE IF except_Exception(regions.kind) THEN regions_error(acc, profile)
                ELSE [acc EXCEPT !.raised = TRUE, !.aborted = TRUE],
                cfg, k + 1)

\* The state of a call: the tasks built, the lines printed, whether the loop
\* was left early, whether an exception left the function.
NoTasks == [tasks |-> << >>, printed |-> << >>, aborted |-> FALSE, raised |-> FALSE]

\* The outer `except Exception as e: print(...)` of the three functions.
building_error(cloud, kind) ==
    IF except_Exception(kind)
    THEN [NoTasks EXCEPT !.printed = <<Line("error building tasks", 0, 0, 0, 0, cloud)>>]
    ELSE [NoTasks EXCEPT !.raised = TRUE]

aws_build_discovery_tasks(cfg) ==
    IF cfg.accounts.kind # "ok" THEN building_error("aws", cfg.accounts.kind)
    ELSE aws_profiles_loop(NoTasks, cfg, 1)

\* for subscription_id in subscriptions: tasks.append({...})
azure_tasks(cfg, subscriptions) ==
    [k \in 1..Len(subscriptions) |->
        Task(cfg, "azure", <<subscriptions[k]>>, subscriptions[k])]

azure_build_discovery_tasks(cfg) ==
    IF cfg.accounts.kind # "ok" THEN building_error("azure", cfg.accounts.kind)
    ELSE [NoTasks EXCEPT !.tasks = azure_tasks(cfg, cfg.accounts.list)]

\* for project_id in projects: tasks.append({...})
gcp_tasks(cfg, projects) ==
    [k \in 1..Len(projects) |-> Task(cfg, "gcp", <<projects[k]>>, projects[k])]

gcp_build_discovery_tasks(cfg) ==
    IF cfg.accounts.kind # "ok" THEN building_error("gcp", cfg.accounts.kind)
    ELSE [NoTasks EXCEPT !.tasks = gcp_tasks(cfg, cfg.accounts.list)]

\* One call of a build_discovery_tasks; r is what it computes.
BDT_Call(r) ==
    /\ pc = "entry"
    /\ tasks' = r.tasks
    /\ log' = r.printed
    /\ pc' = IF r.raised THEN "raised" ELSE "returned"
    /\ UNCHANGED <<inputVars, i, poolVars, all_resources, completed_tasks,
                   processed_count, success_count, stats, timeVars, confirm_calls, calls,
                   matching_items, flowVars>>

AWS_Build == fn = BDT_AWS /\ BDT_Call(aws_build_discovery_tasks(config))
Azure_Build == fn = BDT_AZURE /\ BDT_Call(azure_build_discovery_tasks(config))
GCP_Build == fn = BDT_GCP /\ BDT_Call(gcp_build_discovery_tasks(config))

\* The configurations of a call of build_discovery_tasks.
Configs(f) ==
    {[accounts |-> a, regions |-> r, func |-> b.func, resource |-> b.resource] :
        a \in Listings(AccountNames, MaxAccounts),
        r \in IF f = BDT_AWS THEN [AccountNames -> Listings(RegionNames, MaxRegions)]
              ELSE {<< >>},
        b \in BuildArgs}

----------------------------------------------------------------------------
\* Sequences of length n over S.
SeqsOfLen(S, n) == [1..n -> S]

Init ==
    /\ fn \in {EDT, DAC, EIO, BDT_AWS, BDT_AZURE, BDT_GCP}
    /\ nunits \in 0..(IF fn = EDT THEN MaxTasks ELSE IF fn = DAC THEN NumClouds
                      ELSE IF fn = EIO THEN MaxItems ELSE 0)
    /\ max_workers \in 1..(IF fn = DAC THEN DefaultCloudWorkers
                           ELSE IF fn \in {EDT, EIO} THEN MaxWorkers ELSE 1)
    /\ config \in (IF fn \in {BDT_AWS, BDT_AZURE, BDT_GCP} THEN Configs(fn) ELSE {<< >>})
    /\ IF fn = EIO
       THEN /\ items \in SeqsOfLen(ItemTags, nunits)
            /\ cloud_operations \in KeySets
            /\ confirm \in BOOLEAN
       ELSE /\ items = << >>
            /\ cloud_operations = {}
            /\ confirm = FALSE
    /\ pc = "entry"
    /\ i = 1
    /\ futures = {}
    /\ queue = << >>
    /\ running = {}
    /\ outcome = [u \in Units |-> NoOutcome]
    /\ yielded = {}
    /\ all_resources = << >>
    /\ completed_tasks = 0
    /\ processed_count = 0
    /\ success_count = 0
    /\ log = << >>
    /\ stats = << >>
    /\ now = 0
    /\ confirm_calls = << >>
    /\ calls = << >>
    /\ identifiers = << >>
    /\ matching_items = << >>
    /\ tasks = << >>
    /\ args = << >>
    /\ inventory = << >>
    /\ operation = ""
    /\ vpcs = << >>

Next ==
    \/ EDT_Entry
    \/ EDT_Submit
    \/ \E u \in Units : EDT_Collect(u)
    \/ EDT_Return
    \/ DAC_Entry
    \/ DAC_Stamp
    \/ DAC_Submit
    \/ \E u \in Units : DAC_Collect(u)
    \/ DAC_Return
    \/ \E r \in Responses : EIO_Confirm(r)
    \/ EIO_Entry
    \/ EIO_Submit
    \/ \E u \in Units : EIO_Collect(u)
    \/ EIO_Return
    \/ WorkerStart
    \/ \E u \in Units : \E o \in CallOutcomes : WorkerFinish(u, o)
    \/ Propagate
    \/ AWS_Build
    \/ Azure_Build
    \/ GCP_Build

Spec == Init /\ [][Next]_vars

\* The steps of the calling thread.
Main ==
    \/ EDT_Entry \/ EDT_Submit \/ (\E u \in Units : EDT_Collect(u)) \/ EDT_Return
    \/ DAC_Entry \/ DAC_Stamp \/ DAC_Submit \/ (\E u \in Units : DAC_Collect(u))
    \/ DAC_Return
    \/ EIO_Entry \/ (\E r \in Responses : EIO_Confirm(r)) \/ EIO_Submit
    \/ (\E u \in Units : EIO_Collect(u)) \/ EIO_Return
    \/ Propagate

Max(a, b) == IF a >= b THEN a ELSE b

\* Every unit any call of the model can submit.
UnitIds == 1..Max(MaxTasks, Max(MaxItems, NumClouds))

\* Threads are scheduled fairly, and every submitted call returns or raises.
Fairness ==
    /\ WF_vars(Main)
    /\ WF_vars(WorkerStart)
    /\ \A u \in UnitIds : WF_vars(\E o \in CallOutcomes : WorkerFinish(u, o))

FairSpec == Init /\ [][Next]_vars /\ Fairness

----------------------------------------------------------------------------
\* find_items_by_identifier(items, identifiers).  A string is a sequence of
\* characters; an item is its id and its name, the empty string standing for
\* a missing or empty value (`if item.get(id_key)`).

FIBI == "find_items_by_identifier"

Chars == {"0", "1", "a", ",", " ", "-"}
Digits == {"0", "1"}
Strings(n) == UNION {[1..m -> Chars] : m \in 0..n}

ItemIds == {<< >>, <<"a">>, <<"0">>}
ItemNames == {<< >>, <<"a">>}
Items == [id : ItemIds, name : ItemNames]

RECURSIVE split(_, _)
\* str.split(sep)
split(s, sep) ==
    IF \A k \in 1..Len(s) : s[k] # sep THEN <<s>>
    ELSE LET p == CHOOSE k \in 1..Len(s) : s[k] = sep /\ \A h \in 1..(k - 1) : s[h] # sep
         IN <<SubSeq(s, 1, p - 1)>> \o split(SubSeq(s, p + 1, Len(s)), sep)

\* str.strip()
strip(s) ==
    LET ink == {k \in 1..Len(s) : s[k] # " "}
    IN IF ink = {} THEN << >>
       ELSE SubSeq(s, CHOOSE k \in ink : \A h \in ink : k <= h,
                      CHOOSE k \in ink : \A h \in ink : k >= h)

RECURSIVE digits_value(_)
\* The number a string of decimal digits denotes.
digits_value(s) ==
    IF s = << >> THEN 0
    ELSE 10 * digits_value(SubSeq(s, 1, Len(s) - 1)) + (IF s[Len(s)] = "1" THEN 1 ELSE 0)

\* int(identifier): an optional sign and one or more digits, else ValueError.
int(s) ==
    LET negative == s # << >> /\ s[1] = "-"
        body == IF negative THEN Tail(s) ELSE s
    IN IF body # << >> /\ \A k \in 1..Len(body) : body[k] \in Digits
       THEN [kind |-> "ok", value |-> (IF negative THEN 0 - digits_value(body)
                                       ELSE digits_value(body))]
       ELSE [kind |-> "ValueError", value |-> 0]

\* Mutant: no except clause around int().
except_ValueError_missing(kind) == FALSE

\* except ValueError
except_ValueError(kind) == kind = "ValueError"

\* Mutant: the first item with a key wins.
lookup_map_first(list, key) ==
    [v \in {list[k][key] : k \in 1..Len(list)} \ {<< >>} |->
        list[CHOOSE k \in 1..Len(list) :
                /\ list[k][key] = v
                /\ \A h \in 1..Len(list) : list[h][key] = v => k <= h]]

\* {item.get(key): item for item in items if item.get(key)}: the last item
\* with a key wins.
lookup_map(list, key) ==
    [v \in {list[k][key] : k \in 1..Len(list)} \ {<< >>} |->
        list[CHOOSE k \in 1..Len(list) :
                /\ list[k][key] = v
                /\ \A h \in 1..Len(list) : list[h][key] = v => h <= k]]

\* Mutant: the name is looked up before the id.
lookup_name_first(id_map, name_map, identifier) ==
    IF identifier \in DOMAIN name_map THEN <<name_map[identifier]>>
    ELSE IF identifier \in DOMAIN id_map THEN <<id_map[identifier]>>
    ELSE << >>

\* if identifier in id_map ... elif identifier in name_map ...: the matches.
lookup(id_map, name_map, identifier) ==
    IF identifier \in DOMAIN id_map THEN <<id_map[identifier]>>
    ELSE IF identifier \in DOMAIN name_map THEN <<name_map[identifier]>>
    ELSE << >>

\* Mutant: an item already selected is not appended again.
append_unique(list, item) ==
    IF \E k \in 1..Len(list) : list[k] = item THEN list ELSE Append(list, item)

\* Mutant: a copy of the item without its name is appended.
append_copy(list, item) == Append(list, [item EXCEPT !.name = << >>])

\* matching_items.append(item)
append(list, item) == Append(list, item)

\* The body of `for identifier in identifier_list`, on the state acc of the
\* call: the list built so far, the errors logged, whether an exception left
\* the function.
resolve_identifier(acc, list, identifier) ==
    LET index == int(identifier)
    IN IF index.kind = "ok"
       THEN IF 1 <= index.value /\ index.value <= Len(list)
            THEN [acc EXCEPT !.matching_items = append(@, list[index.value])]
            ELSE [acc EXCEPT !.log = Append(@, Line("index out of range", 0, index.value,
                                                    Len(list), 0, identifier))]
       ELSE IF ~except_ValueError(index.kind)
       THEN [acc EXCEPT !.raised = TRUE]
       ELSE LET found == lookup(lookup_map(list, "id"), lookup_map(list, "name"),
                                identifier)
            IN IF found # << >>
               THEN [acc EXCEPT !.matching_items = append(@, found[1])]
               ELSE [acc EXCEPT !.log = Append(@, Line("no item found", 0, 0, 0, 0, identifier))]

\* identifier_list = [id.strip() for id in identifiers.split(',')]
identifier_list(expression) ==
    LET parts == split(expression, ",")
    IN [k \in 1..Len(parts) |-> strip(parts[k])]

RECURSIVE resolve_all(_, _, _, _)
\* The for loop from token k on; an exception ends it.
resolve_all(acc, list, tokens, k) ==
    IF k > Len(tokens) \/ acc.raised THEN acc
    ELSE resolve_all(resolve_identifier(acc, list, tokens[k]), list, tokens, k + 1)

find_items_by_identifier(list, expression) ==
    resolve_all([matching_items |-> << >>, log |-> << >>, raised |-> FALSE],
                list, identifier_list(expression), 1)

\* One call of find_items_by_identifier(items, identifiers).
FIBI_Call ==
    /\ fn = FIBI
    /\ pc = "entry"
    /\ LET r == find_items_by_identifier(items, identifiers)
       IN /\ matching_items' = r.matching_items
          /\ log' = r.log
          /\ pc' = IF r.raised THEN "raised" ELSE "returned"
    /\ UNCHANGED <<inputVars, i, poolVars, all_resources, completed_tasks,
                   processed_count, success_count, stats, timeVars, confirm_calls, calls,
                   tasks, flowVars>>

ResolverInit ==
    /\ fn = FIBI
    /\ nunits = 0
    /\ max_workers = 1
    /\ items \in UNION {[1..n -> Items] : n \in 0..MaxCands}
    /\ identifiers \in Strings(MaxExpr)
    /\ config = << >>
    /\ cloud_operations = {}
    /\ confirm = FALSE
    /\ pc = "entry"
    /\ i = 1
    /\ futures = {}
    /\ queue = << >>
    /\ running = {}
    /\ outcome = << >>
    /\ yielded = {}
    /\ all_resources = << >>
    /\ completed_tasks = 0
    /\ processed_count = 0
    /\ success_count = 0
    /\ log = << >>
    /\ stats = << >>
    /\ now = 0
    /\ confirm_calls = << >>
    /\ calls = << >>
    /\ matching_items = << >>
    /\ tasks = << >>
    /\ args = << >>
    /\ inventory = << >>
    /\ operation = ""
    /\ vpcs = << >>

ResolverNext == FIBI_Call

ResolverSpec == ResolverInit /\ [][ResolverNext]_vars

----------------------------------------------------------------------------
\* The commands: main of vm.py and of vpc.py, and main of refresh_all.py.

VM_MAIN == "vm.main"
VPC_MAIN == "vpc.main"
REFRESH_ALL == "refresh_all.main"

\* execute_items_operation(..., max_workers: int = 10)
DefaultItemWorkers == 10

\* The VM records that the get_vms of the three providers build, with the
\* fields that the core and the VPC discovery read.
aws_vm(id, name, vpc_id) ==
    [cloud |-> "aws", id |-> id, name |-> name, account_id |-> "1", profile |-> "dev",
     region |-> "us", vpc_id |-> vpc_id]
azure_vm(name, vnet_name) ==
    [cloud |-> "azure", id |-> name, name |-> name, account_id |-> "dev",
     region |-> "us", vpc_id |-> vnet_name]
gcp_vm(name, network_name) ==
    [cloud |-> "gcp", id |-> name, name |-> name, account_id |-> "dev",
     region |-> "us", vpc_id |-> network_name]

\* The lists of records a discovery finds and an inventory file holds.
Inventories ==
    {<< >>,
     <<aws_vm(<<"a">>, << >>, "net")>>,
     <<azure_vm(<<"-">>, "net"), aws_vm(<<"a">>, <<"-">>, "other")>>,
     <<gcp_vm(<<"a">>, "net"), azure_vm(<<"a">>, "net")>>}

\* save_to_json(items, filename): the file now holds the list.
save_to_json(list) == [file |-> "valid", items |-> list]

\* What the inventory file can be when a command starts.
InventoryFiles ==
    {save_to_json(list) : list \in Inventories}
        \cup {[file |-> f, items |-> << >>] : f \in {"missing", "invalid"}}

\* The -i argument: absent (or empty), an expression, or an @ without path.
FilterArgs == {<< >>, <<"a">>, <<"1">>, <<"a", ",", "-">>, <<"@">>}

\* What parse_arguments returns; tag stands for --tag and --value together,
\* and vpc.py has no --protected.
Args(f) ==
    [refresh : BOOLEAN, vms : FilterArgs, delete : BOOLEAN, tag : BOOLEAN,
     protected : IF f = VM_MAIN THEN BOOLEAN ELSE {FALSE}]

\* process_identifiers_input: the argument itself unless it starts with @;
\* "@" without a path is sys.exit(1).
process_identifiers_input(v) ==
    IF v # << >> /\ v[1] = "@" THEN [kind |-> "exit", value |-> << >>]
    ELSE [kind |-> "ok", value |-> v]

\* `if args.refresh: refresh(); return` -- refresh() saves what discovery
\* found; the VPC discovery can end in SystemExit instead.
CLI_Refresh ==
    /\ fn \in {VM_MAIN, VPC_MAIN}
    /\ pc = "entry"
    /\ args.refresh
    /\ \/ /\ \E found \in Inventories : inventory' = save_to_json(found)
          /\ operation' = "refresh"
          /\ pc' = "returned"
       \/ /\ fn = VPC_MAIN
          /\ pc' = "raised"
          /\ UNCHANGED <<inventory, operation>>
    /\ UNCHANGED <<inputVars, i, poolVars, accVars, timeVars, confirm_calls, calls,
                   resolverVars, args, vpcs>>

\* target = load_from_json(inventory path)
CLI_Load ==
    /\ fn \in {VM_MAIN, VPC_MAIN}
    /\ pc = "entry"
    /\ ~args.refresh
    /\ IF load_from_json(inventory.file) = "ok"
       THEN /\ matching_items' = inventory.items
            /\ pc' = "filter"
       ELSE /\ pc' = "raised"
            /\ UNCHANGED matching_items
    /\ UNCHANGED <<inputVars, i, poolVars, accVars, timeVars, confirm_calls, calls,
                   tasks, flowVars>>

\* if args.vms: target = find_items_by_identifier(target, processed);
\*              if not target: return
CLI_Filter ==
    /\ fn \in {VM_MAIN, VPC_MAIN}
    /\ pc = "filter"
    /\ IF args.vms = << >>
       THEN /\ pc' = "action"
            /\ UNCHANGED <<matching_items, log>>
       ELSE LET processed == process_identifiers_input(args.vms)
                r == find_items_by_identifier(matching_items, processed.value)
            IN IF processed.kind = "exit"
               THEN /\ pc' = "raised"
                    /\ UNCHANGED <<matching_items, log>>
               ELSE /\ matching_items' = r.matching_items
                    /\ log' = r.log
                    /\ pc' = IF r.raised THEN "raised"
                             ELSE IF r.matching_items = << >> THEN "returned"
                             ELSE "action"
    /\ UNCHANGED <<inputVars, i, poolVars, all_resources, completed_tasks,
                   processed_count, success_count, stats, timeVars, confirm_calls, calls,
                   tasks, flowVars>>

\* Mutant: delete needs no filter.
delete_allowed_always(filter_applied) == TRUE

\* `if not filter_applied: ... return` under `if args.delete`.
delete_allowed(filter_applied) == filter_applied

\* csp.vm / csp.vpc delete, add_tag, set_protection:
\* execute_items_operation(target, cloud_operations, description, confirm=True)
csp_operation(op) ==
    /\ operation' = op
    /\ fn' = EIO
    /\ items' = [k \in 1..Len(matching_items) |-> matching_items[k].cloud]
    /\ nunits' = Len(matching_items)
    /\ cloud_operations' = {"aws", "azure", "gcp"}
    /\ confirm' = TRUE
    /\ max_workers' = DefaultItemWorkers
    /\ outcome' = [u \in 1..Len(matching_items) |-> NoOutcome]
    /\ pc' = "entry"

\* if args.delete ... elif args.tag and args.value ... elif args.protected
\* ... else print the table.
CLI_Action ==
    /\ fn \in {VM_MAIN, VPC_MAIN}
    /\ pc = "action"
    /\ IF args.delete /\ ~delete_allowed(args.vms # << >>)
       THEN /\ pc' = "returned"
            /\ UNCHANGED <<fn, nunits, max_workers, items, cloud_operations, confirm,
                           outcome, operation>>
       ELSE IF args.delete THEN csp_operation("delete")
       ELSE IF args.tag THEN csp_operation("tag")
       ELSE IF args.protected THEN csp_operation("protect")
       ELSE /\ operation' = "list"
            /\ pc' = "returned"
            /\ UNCHANGED <<fn, nunits, max_workers, items, cloud_operations, confirm,
                           outcome>>
    /\ UNCHANGED <<identifiers, config, i, futures, queue, running, yielded, accVars,
                   timeVars, confirm_calls, calls, resolverVars, args, inventory, vpcs>>

\* The networks the get_vpcs of the three providers find: an AWS VPC of a
\* profile and region, an Azure VNet of a subscription, a GCP network of a
\* project.
aws_vpc == [cloud |-> "aws", profile |-> "dev", region |-> "us", id |-> "net"]
azure_vnet == [cloud |-> "azure", subscription_id |-> "dev", location |-> "us", name |-> "net"]
gcp_network == [cloud |-> "gcp", project_id |-> "dev", name |-> "net"]
Networks == {aws_vpc, azure_vnet, gcp_network}

\* common_filters of get_resource_counts_from_inventory, per provider.
aws_common_filters(n) ==
    [cloud |-> "aws", profile |-> n.profile, region |-> n.region, vpc_id |-> n.id]
azure_common_filters(n) ==
    [cloud |-> "azure", account_id |-> n.subscription_id, location |-> n.location,
     vnet_name |-> n.name]
gcp_common_filters(n) ==
    [cloud |-> "gcp", account_id |-> n.project_id, network_name |-> n.name]
common_filters(n) ==
    IF n.cloud = "aws" THEN aws_common_filters(n)
    ELSE IF n.cloud = "azure" THEN azure_common_filters(n)
    ELSE gcp_common_filters(n)

\* item.get(k): None for a key the record does not have.
get(item, k) == IF k \in DOMAIN item THEN item[k] ELSE "None"

\* all(item.get(k) == v for k, v in common_filters.items())
all_filters_match(item, filters) == \A k \in DOMAIN filters : get(item, k) = filters[k]

\* counts['vm_count'] of get_resource_counts_from_inventory: 0 without a
\* file, else the number of records of the file that match the filters.
vm_count(n) ==
    IF inventory.file = "missing" THEN 0
    ELSE Cardinality({k \in 1..Len(inventory.items) :
                         all_filters_match(inventory.items[k], common_filters(n))})

\* vm.refresh(): result = csp_vm.discover()
RA_VmDiscover ==
    /\ fn = REFRESH_ALL
    /\ pc = "entry"
    /\ all_resources' \in Inventories
    /\ pc' = "save"
    /\ UNCHANGED <<inputVars, i, poolVars, completed_tasks, processed_count,
                   success_count, log, stats, timeVars, confirm_calls, calls,
                   resolverVars, flowVars>>

\* vm.refresh(): save_to_json(result['items'], VM inventory path)
RA_VmSave ==
    /\ fn = REFRESH_ALL
    /\ pc = "save"
    /\ inventory' = save_to_json(all_resources)
    /\ pc' = "vpc"
    /\ UNCHANGED <<inputVars, i, poolVars, accVars, timeVars, confirm_calls, calls,
                   resolverVars, args, operation, vpcs>>

\* vpc.refresh(): each network found gets the vm_count read from the VM
\* inventory; load_from_json of an invalid file is sys.exit(1).
RA_VpcRefresh ==
    /\ fn = REFRESH_ALL
    /\ pc = "vpc"
    /\ \E found \in SUBSET Networks :
          IF found # {} /\ inventory.file = "invalid"
          THEN /\ pc' = "raised"
               /\ UNCHANGED vpcs
          ELSE /\ vpcs' = [n \in found |-> vm_count(n)]
               /\ pc' = "returned"
    /\ UNCHANGED <<inputVars, i, poolVars, accVars, timeVars, confirm_calls, calls,
                   resolverVars, args, inventory, operation>>

\* A run of one of the commands, or a call of execute_discovery_tasks as the
\* providers' discover() make it.
FlowInit ==
    /\ fn \in {VM_MAIN, VPC_MAIN, REFRESH_ALL, EDT}
    /\ IF fn = EDT
       THEN Init
       ELSE /\ args \in (IF fn = REFRESH_ALL THEN {<< >>} ELSE Args(fn))
            /\ inventory \in InventoryFiles
            /\ operation = (IF fn = REFRESH_ALL THEN "" ELSE "none")
            /\ vpcs = << >>
            /\ nunits = 0
            /\ max_workers = 1
            /\ items = << >>
            /\ cloud_operations = {}
            /\ confirm = FALSE
            /\ identifiers = << >>
            /\ config = << >>
            /\ pc = "entry"
            /\ i = 1
            /\ futures = {}
            /\ queue = << >>
            /\ running = {}
            /\ outcome = << >>
            /\ yielded = {}
            /\ all_resources = << >>
            /\ completed_tasks = 0
            /\ processed_count = 0
            /\ success_count = 0
            /\ log = << >>
            /\ stats = << >>
            /\ now = 0
            /\ confirm_calls = << >>
            /\ calls = << >>
            /\ matching_items = << >>
            /\ tasks = << >>

FlowNext ==
    \/ CLI_Refresh
    \/ CLI_Load
    \/ CLI_Filter
    \/ CLI_Action
    \/ EIO_Entry
    \/ \E r \in Responses : EIO_Confirm(r)
    \/ EIO_Submit
    \/ \E u \in Units : EIO_Collect(u)
    \/ EIO_Return
    \/ RA_VmDiscover
    \/ RA_VmSave
    \/ RA_VpcRefresh
    \/ EDT_Entry
    \/ EDT_Submit
    \/ \E u \in Units : EDT_Collect(u)
    \/ EDT_Return
    \/ WorkerStart
    \/ \E u \in Units : \E o \in CallOutcomes : WorkerFinish(u, o)
    \/ Propagate

FlowSpec == FlowInit /\ [][FlowNext]_vars

----------------------------------------------------------------------------
\* Helpers of the properties.

\* Number of positions of seq holding x.
Count(seq, x) == Cardinality({k \in 1..Len(seq) : seq[k] = x})

RECURSIVE SumOver(_, _)
\* Sum of f[u] over the finite set S.
SumOver(f, S) ==
    IF S = {} THEN 0
    ELSE LET u == CHOOSE v \in S : TRUE IN f[u] + SumOver(f, S \ {u})

\* The progress lines ("found" or "error") the log holds for task u.
OutcomeLines(u) ==
    {k \in 1..Len(log) : log[k].unit = u /\ log[k].line \in {"found", "error"}}

\* Every item a discovery call can return.
AllItems == {<<u, k>> : u \in Units, k \in 1..MaxSize}

\* The item <<u, k>> is one that the call of unit u returned.
ReturnedItem(x) == outcome[x[1]].kind = "ok" /\ x[2] <= outcome[x[1]].size

Finished == pc \in {"returned", "raised"}

----------------------------------------------------------------------------
C2_Union ==
    (fn = EDT /\ pc = "returned" /\ \A u \in Units : outcome[u].kind = "ok") =>
        /\ Len(all_resources) = SumOver([u \in Units |-> outcome[u].size], Units)
        /\ \A x \in AllItems :
              Count(all_resources, x) = (IF ReturnedItem(x) THEN 1 ELSE 0)
        /\ \A k \in 1..Len(all_resources) : all_resources[k] \in AllItems

C2_Witness ==
    /\ fn = EDT
    /\ pc = "returned"
    /\ nunits = MaxTasks
    /\ max_workers > 1
    /\ \A u \in Units : outcome[u].kind = "ok" /\ outcome[u].size > 0
    /\ all_resources[1][1] = MaxTasks

C4_EveryFailureCaught == pc \notin {"unwind", "raised"}

\* C5: the three batch calls are over only when every submitted unit has
\* completed: nothing is queued or running when the call returns (or raises),
\* the result then holds the merge of every unit, and while a unit is queued
\* or running neither the return nor the propagation of an exception can
\* happen.
C5_ReturnsAfterAllComplete ==
    /\ Finished =>
          /\ queue = << >>
          /\ running = {}
          /\ \A u \in futures : done(u)
    /\ pc = "returned" => yielded = futures
    /\ (queue # << >> \/ running # {}) =>
          ~ENABLED (EDT_Return \/ DAC_Return \/ EIO_Return \/ Propagate)

C5_Witness ==
    /\ pc = "collect"
    /\ nunits >= 2
    /\ futures = Units
    /\ running # {}
    /\ Cardinality(yielded) = nunits - 1

\* C6: with no more providers than workers, a submitted provider call never
\* waits for another provider's call (a worker is free whenever a call is
\* queued, however many calls are running and however long they run), and the
\* record of a provider whose call is done can be filled while other calls
\* are still running.
C6_ProvidersInParallel ==
    (fn = DAC /\ nunits <= max_workers) =>
        /\ queue # << >> => worker_available /\ ENABLED WorkerStart
        /\ \A u \in Units :
              (pc = "collect" /\ done(u) /\ u \notin yielded) => ENABLED DAC_Collect(u)

C6_Witness ==
    /\ fn = DAC
    /\ nunits = NumClouds
    /\ max_workers = DefaultCloudWorkers
    /\ 1 \in running
    /\ yielded = {2, 3}
    /\ \A u \in {2, 3} :
          {"end_time", "duration", "count", "status"} \subseteq DOMAIN stats[u]

\* C7: at most max_workers units execute at the same time; a unit starts only
\* when fewer than max_workers units are running, so the units beyond the
\* limit stay queued; and with fair scheduling and terminating calls every
\* queued unit is eventually started.
C7_BoundedPool ==
    /\ [](Cardinality(running) <= max_workers)
    /\ [][Cardinality(running') > Cardinality(running) =>
             Cardinality(running) < max_workers]_vars
    /\ \A u \in UnitIds :
          (\E k \in 1..Len(queue) : queue[k] = u) ~> (u \in running \/ (u \in Units /\ done(u)))

C7_Witness ==
    /\ fn = EDT
    /\ max_workers = 2
    /\ Cardinality(running) = max_workers
    /\ queue # << >>

\* C8: the stats discover_across_clouds returns hold one record per provider
\* key (and the record 'all'); a provider whose function returned r has
\* status success, count len(r) and no error; one whose function raised an
\* exception has status failed, count 0 and the exception's message as error;
\* both have start_time, end_time and duration.
C8_ProviderRecords ==
    (fn = DAC /\ pc = "returned") =>
        /\ DOMAIN stats = Units \cup {ALL}
        /\ \A u \in Units :
              /\ {"start_time", "end_time", "duration"} \subseteq DOMAIN stats[u]
              /\ outcome[u].kind = "ok" =>
                    /\ stats[u].status = "success"
                    /\ stats[u].count = outcome[u].size
                    /\ "error" \notin DOMAIN stats[u]
              /\ outcome[u].kind # "ok" =>
                    /\ outcome[u].kind = "exc"
                    /\ stats[u].status = "failed"
                    /\ stats[u].count = 0
                    /\ "error" \in DOMAIN stats[u]
                    /\ stats[u].error = outcome[u].msg

C8_Witness ==
    /\ fn = DAC
    /\ pc = "returned"
    /\ nunits = NumClouds
    /\ outcome[1] = Returned(MaxSize)
    /\ outcome[2] = Raised("denied")
    /\ outcome[3] = Raised("timeout")
    /\ all_resources # << >>
    /\ yielded = Units

\* C9: in the result of discover_across_clouds the count of 'all' is the
\* length of the item list and the sum of the counts of the providers with
\* status success, the status of 'all' is success whatever the providers did,
\* and no item of the list comes from a provider with status failed.
C9_AggregateCount ==
    fn = DAC =>
        /\ \A u \in Units :
              (u \in DOMAIN stats /\ "status" \in DOMAIN stats[u]
                  /\ stats[u].status = "failed") =>
                  \A k \in 1..Len(all_resources) : all_resources[k][1] # u
        /\ pc = "returned" =>
              /\ stats[ALL].count = Len(all_resources)
              /\ stats[ALL].count =
                     SumOver([u \in Units |-> IF stats[u].status = "success"
                                              THEN stats[u].count ELSE 0], Units)
              /\ stats[ALL].status = "success"

C9_Witness ==
    /\ fn = DAC
    /\ pc = "returned"
    /\ nunits = NumClouds
    /\ \A u \in Units : stats[u].status = "failed"
    /\ stats[ALL].status = "success"
    /\ stats[ALL].count = 0

\* C10: over the logical clock, a provider's start_time is in its record
\* before its call is submitted, its end_time is set only after the call has
\* completed, duration = end_time - start_time >= 0; the record 'all' starts
\* no later than any provider and, at return, ends no earlier than any
\* provider, so its duration is at least every provider's.
C10_TimingWindow ==
    fn = DAC =>
        /\ \A u \in futures : u \in DOMAIN stats /\ stats[u].start_time <= now
        /\ \A u \in DOMAIN stats \ {ALL} : stats[ALL].start_time <= stats[u].start_time
        /\ \A u \in DOMAIN stats \ {ALL} :
              "end_time" \in DOMAIN stats[u] =>
                  /\ done(u)
                  /\ stats[u].start_time <= stats[u].end_time
                  /\ stats[u].end_time <= now
                  /\ stats[u].duration = stats[u].end_time - stats[u].start_time
                  /\ stats[u].duration >= 0
        /\ pc = "returned" =>
              /\ stats[ALL].duration = stats[ALL].end_time - stats[ALL].start_time
              /\ \A u \in Units :
                    /\ stats[ALL].end_time >= stats[u].end_time
                    /\ stats[ALL].duration >= stats[u].duration

C10_Witness ==
    /\ fn = DAC
    /\ pc = "returned"
    /\ nunits = NumClouds
    /\ stats[1].start_time = 0
    /\ stats[1].duration = MaxTime
    /\ stats[3].start_time = MaxTime
    /\ stats[3].duration = 0
    /\ stats[ALL].duration = MaxTime

----------------------------------------------------------------------------
\* The keys confirm_action takes as a yes.
Affirmative(response) == response \in {"y", "Y"}

\* The log lines of kind what.
LinesOf(what) == {k \in 1..Len(log) : log[k].line = what}

\* C11: when execute_items_operation is called with a non-empty item list and
\* confirm=true and confirm_action returns false, no handler is invoked,
\* nothing is submitted to the pool, both counters stay 0, and the log holds
\* the cancellation line and no tally line.
C11_ConfirmationAbort ==
    (fn = EIO /\ confirm /\ items # << >> /\ confirm_calls # << >>
        /\ ~confirm_calls[1].result) =>
        /\ pc = "returned"
        /\ calls = << >>
        /\ futures = {} /\ queue = << >> /\ running = {}
        /\ processed_count = 0 /\ success_count = 0
        /\ log = <<Line("cancelled", 0, 0, 0, 0, "")>>

C11_Witness ==
    /\ fn = EIO /\ confirm /\ pc = "returned"
    /\ Len(items) = MaxItems
    /\ \E k \in 1..Len(items) : has_handler(items[k])
    /\ confirm_calls # << >> /\ ~confirm_calls[1].result

\* C12: execute_items_operation calls confirm_action at most once, with the
\* full item list, and only when confirm is true and the list is not empty;
\* in that case the call is made before anything is submitted or skipped and
\* a finished run has made it; with an empty list the first step returns with
\* no confirmation and no handler call; and after any answer other than y/Y
\* the run has returned with nothing submitted.
C12_ConfirmOnceBeforeDispatch ==
    fn = EIO =>
        /\ Len(confirm_calls) <= 1
        /\ \A k \in 1..Len(confirm_calls) : confirm_calls[k].items = items
        /\ confirm_calls # << >> => (confirm /\ items # << >>)
        /\ (confirm /\ items # << >>
               /\ (futures # {} \/ LinesOf("unknown cloud") # {} \/ Finished)) =>
              Len(confirm_calls) = 1
        /\ (confirm /\ futures # {}) => Affirmative(confirm_calls[1].response)
        /\ (items = << >> /\ pc # "entry") =>
              (pc = "returned" /\ confirm_calls = << >> /\ calls = << >> /\ futures = {})
        /\ (confirm_calls # << >> /\ ~Affirmative(confirm_calls[1].response)) =>
              (pc = "returned" /\ futures = {} /\ calls = << >>)

C12_Witness ==
    /\ fn = EIO /\ confirm /\ pc = "returned"
    /\ Len(confirm_calls) = 1
    /\ confirm_calls[1].response = "Y"
    /\ Len(calls) = MaxItems
    /\ LinesOf("completed") # {}

\* Two tags that are equal up to letter case.
SameUpToCase(a, b) == lower(a) = lower(b)

\* The entries of the item list whose tag equals no handler-map key, whatever
\* the letter case.
NoEntry == {u \in 1..Len(items) : \A key \in cloud_operations : ~SameUpToCase(key, items[u])}

\* The run got past the empty check and the confirmation.
Dispatching == LinesOf("start") # {}

\* C13: an item whose tag has no entry in the handler map is never
\* dispatched, and the total shown in the progress lines and in the final
\* tally does not count it.
C13_UnknownTagExcluded ==
    fn = EIO =>
        /\ \A u \in NoEntry : u \notin futures /\ Count(calls, u) = 0
        /\ success_count <= Len(items) - Cardinality(NoEntry)
        /\ \A k \in LinesOf("progress") \cup LinesOf("completed") :
              log[k].total = Len(items) - Cardinality(NoEntry)

\* C14 as claimed: once the dispatch loop has ended, every item whose tag
\* equals a handler-map key up to letter case has been dispatched.
C14_CaseInsensitive ==
    (fn = EIO /\ pc = "collect") =>
        \A u \in 1..Len(items) :
            (\E key \in cloud_operations : SameUpToCase(key, items[u])) => u \in futures

\* C14 as amended: once the dispatch loop has ended, an item has been
\* dispatched exactly when its lower-cased tag is a handler-map key; the keys
\* are compared as they are.
C14_LowerCasedLookup ==
    (fn = EIO /\ pc = "collect") =>
        \A u \in 1..Len(items) :
            u \in futures <=> (\E key \in cloud_operations : key = lower(items[u]))

C14_Witness ==
    /\ fn = EIO /\ pc = "collect"
    /\ cloud_operations = {"aws"}
    /\ \E u \in futures : items[u] = "AWS"
    /\ \E u \in 1..Len(items) : items[u] = "oci" /\ u \notin futures

\* The dispatched calls that returned true.
ReturnedTrue(S) == {u \in S : outcome[u].kind = "true"}

\* C15: with confirm=false, the success counter is the number of collected
\* calls that returned true (a call that returned false or raised adds
\* nothing), 0 <= success <= processed <= dispatched <= total at every
\* moment, and the tally of a run of a non-empty list reports the number of
\* dispatched calls that returned true out of len(items).
C15_Tally ==
    (fn = EIO /\ ~confirm) =>
        /\ success_count = Cardinality(ReturnedTrue(yielded))
        /\ 0 <= success_count
        /\ success_count <= processed_count
        /\ processed_count <= Cardinality(futures)
        /\ Cardinality(futures) <= total_count
        /\ (pc = "returned" /\ items # << >>) =>
              /\ Cardinality(LinesOf("completed")) = 1
              /\ \A k \in LinesOf("completed") :
                    /\ log[k].k = Cardinality(ReturnedTrue(futures))
                    /\ log[k].total = Len(items)

C15_Witness ==
    /\ fn = EIO /\ ~confirm /\ pc = "returned"
    /\ Cardinality(futures) = MaxItems
    /\ success_count = 1
    /\ \E u \in futures : outcome[u].kind \in {"false", "exc"}

C17_OncePerEntry ==
    fn = EIO =>
        /\ \A u \in Units :
              /\ Count(calls, u) <= 1
              /\ Count(calls, u) = 1 => lower(items[u]) \in cloud_operations
        /\ (pc = "returned" /\ Dispatching) =>
              /\ \A u \in Units :
                    Count(calls, u) = (IF lower(items[u]) \in cloud_operations THEN 1 ELSE 0)
              /\ \A key \in cloud_operations :
                    Cardinality({k \in 1..Len(calls) : lower(items[calls[k]]) = key})
                        = Cardinality({u \in Units : lower(items[u]) = key})

\* The same item twice in the list, the first call failing.
C17_Witness ==
    /\ fn = EIO /\ pc = "returned"
    /\ Len(items) = MaxItems
    /\ \A u \in Units : items[u] = "aws"
    /\ Len(calls) = MaxItems
    /\ outcome[1].kind \in {"false", "exc"}

----------------------------------------------------------------------------
\* The trimmed tokens of the expression.
Tokens == identifier_list(identifiers)

IsInteger(t) == int(t).kind = "ok"

\* The token selects some candidate: an index in 1..len(items), or a
\* non-integer, non-empty text that is the id or the name of a candidate.
Resolvable(t) ==
    IF IsInteger(t) THEN 1 <= int(t).value /\ int(t).value <= Len(items)
    ELSE t # << >> /\ \E k \in 1..Len(items) : items[k].id = t \/ items[k].name = t

\* The positions of the token list T whose token selects a candidate, and
\* the others.
ResolvablePos(T) == {k \in 1..Len(T) : Resolvable(T[k])}
MissPos(T) == {k \in 1..Len(T) : ~Resolvable(T[k])}

\* The j-th smallest element of the set S of positions.
Nth(S, j) == CHOOSE k \in S : Cardinality({h \in S : h <= k}) = j

\* C18: find_items_by_identifier returns one entry per resolvable token, in
\* the order of the tokens: the j-th entry is a candidate that the j-th
\* resolvable token names (by index, id or name), and a repeated token gives
\* a repeated entry; e.g. for candidates [p, q] with only q called a,
\* "a,1" gives [q, p], and "1,1" gives [p, p].
C18_TokenOrder ==
    (fn = FIBI /\ pc = "returned") =>
        /\ LET T == Tokens
               R == ResolvablePos(T)
           IN /\ Len(matching_items) = Cardinality(R)
              /\ \A j \in 1..Len(matching_items) :
                    LET t == T[Nth(R, j)]
                        x == matching_items[j]
                    IN IF IsInteger(t) THEN x = items[int(t).value]
                       ELSE x.id = t \/ x.name = t
        /\ (identifiers = <<"1", ",", "1">> /\ Len(items) >= 1) =>
              matching_items = <<items[1], items[1]>>
        /\ (identifiers = <<"a", ",", "1">> /\ Len(items) = 2 /\ items[2].id = <<"a">>
               /\ items[1].id # <<"a">>) =>
              matching_items = <<items[2], items[1]>>

C18_Witness ==
    /\ fn = FIBI /\ pc = "returned"
    /\ identifiers = <<"a", ",", "1">>
    /\ Len(items) = 2 /\ items[1] # items[2]
    /\ matching_items = <<items[2], items[1]>>

\* C19: a token that parses as an integer is used as a 1-based index only:
\* in range it selects items[index - 1], out of range (0, negative, too
\* large) it selects nothing, also when a candidate has that text as its id
\* or name; any other token selects a candidate with that id, and a
\* candidate with that name only when no candidate has that id.
C19_Priority ==
    (fn = FIBI /\ pc = "returned") =>
        LET T == Tokens
            R == ResolvablePos(T)
        IN /\ \A j \in 1..Len(matching_items) :
                 LET t == T[Nth(R, j)]
                     x == matching_items[j]
                 IN IF IsInteger(t)
                    THEN 1 <= int(t).value /\ int(t).value <= Len(items)
                         /\ x = items[int(t).value]
                    ELSE \/ x.id = t
                         \/ x.name = t /\ \A k \in 1..Len(items) : items[k].id # t
           /\ (\A k \in 1..Len(T) :
                   IsInteger(T[k]) /\ ~(1 <= int(T[k]).value
                                        /\ int(T[k]).value <= Len(items))) =>
                 matching_items = << >>
           /\ (Len(T) = 1 /\ ~IsInteger(T[1]) /\ T[1] # << >>
                  /\ \E k \in 1..Len(items) : items[k].id = T[1]) =>
                 (Len(matching_items) = 1 /\ matching_items[1].id = T[1])

\* The token 0 with a candidate whose id is 0.
C19_Witness ==
    /\ fn = FIBI /\ pc = "returned"
    /\ identifiers = <<" ", "0", " ">>
    /\ Len(items) = MaxCands
    /\ \E k \in 1..Len(items) : items[k].id = <<"0">>
    /\ matching_items = << >>

\* C20: find_items_by_identifier never raises; at return every token has
\* given either one entry or one logged error, the errors are those of the
\* tokens that select nothing, in token order, and every entry returned is
\* one of the candidates; e.g. "0,-" gives an empty list and two errors.
C20_Misses ==
    fn = FIBI =>
        /\ pc # "raised"
        /\ pc = "returned" =>
              /\ LET T == Tokens
                     M == MissPos(T)
                 IN /\ Len(log) = Cardinality(M)
                    /\ Len(matching_items) + Len(log) = Len(T)
                    /\ \A j \in 1..Len(log) : log[j].msg = T[Nth(M, j)]
              /\ \A j \in 1..Len(matching_items) :
                    \E k \in 1..Len(items) : matching_items[j] = items[k]
              /\ identifiers = <<"0", ",", "-">> => (matching_items = << >> /\ Len(log) = 2)

C20_Witness ==
    /\ fn = FIBI /\ pc = "returned"
    /\ identifiers = <<"0", ",", "-">>
    /\ Len(items) = MaxCands
    /\ matching_items = << >>
    /\ Len(log) = 2

----------------------------------------------------------------------------
\* build_discovery_tasks

Builders == {BDT_AWS, BDT_AZURE, BDT_GCP}

\* The positions of the configured account list that hold the account p.
Occurrences(p) == {k \in 1..Len(config.accounts.list) : config.accounts.list[k] = p}

\* The tasks built for the AWS profile p.
TasksOf(p) == {t \in 1..Len(tasks) : tasks[t].args[1] = p}

\* The lines reporting that the regions of profile p could not be listed.
RegionErrors(p) ==
    {k \in 1..Len(log) : log[k].line = "error getting regions" /\ log[k].msg = p}

\* C21: the AWS build_discovery_tasks never raises; when the profiles could
\* be listed, a profile whose regions cannot be listed gives no task and one
\* reported line per occurrence, and every other profile, before or after it
\* in the list, gives one task per region and no reported line.
C21_SkipsFailedProfile ==
    (fn = BDT_AWS /\ pc # "entry") =>
        /\ pc = "returned"
        /\ config.accounts.kind = "ok" =>
              \A p \in AccountNames :
                 LET n == Cardinality(Occurrences(p))
                 IN IF config.regions[p].kind = "ok"
                    THEN /\ Cardinality(TasksOf(p)) = n * Len(config.regions[p].list)
                         /\ RegionErrors(p) = {}
                    ELSE /\ TasksOf(p) = {}
                         /\ Cardinality(RegionErrors(p)) = n

C21_Witness ==
    /\ fn = BDT_AWS /\ pc = "returned"
    /\ config.accounts = Listing(<<"dev", "prod">>)
    /\ config.regions["dev"] = ListingError
    /\ config.regions["prod"] = Listing(<<"us", "eu">>)
    /\ Len(tasks) = 2
    /\ Len(log) = 1

\* The task of scope `args` that build_discovery_tasks is to emit.
ExpectedTask(cloud, task_args, location) ==
    [func |-> config.func, args |-> task_args, cloud |-> cloud, location |-> location,
     resource |-> config.resource]

\* C22: build_discovery_tasks returns exactly one task per scope, in the
\* configured order: for AWS one per profile and region of that profile with
\* args (profile, region), for Azure one per subscription, for GCP one per
\* project, each with the given function, the provider tag, the location and
\* the resource name; with an empty account list it returns the empty list
\* and reports nothing; execute_discovery_tasks on an empty list returns an
\* empty result and no call is started.
C22_OneTaskPerScope ==
    /\ (fn \in Builders /\ pc # "entry" /\ config.accounts.kind = "ok") =>
          LET accounts == config.accounts.list
          IN /\ pc = "returned"
             /\ accounts = << >> => (tasks = << >> /\ log = << >>)
             /\ fn = BDT_AZURE =>
                   /\ Len(tasks) = Len(accounts)
                   /\ \A k \in 1..Len(accounts) :
                         tasks[k] = ExpectedTask("azure", <<accounts[k]>>, accounts[k])
             /\ fn = BDT_GCP =>
                   /\ Len(tasks) = Len(accounts)
                   /\ \A k \in 1..Len(accounts) :
                         tasks[k] = ExpectedTask("gcp", <<accounts[k]>>, accounts[k])
             /\ fn = BDT_AWS =>
                   /\ \A t \in 1..Len(tasks) :
                         /\ tasks[t] = ExpectedTask("aws", tasks[t].args, tasks[t].args)
                         /\ Len(tasks[t].args) = 2
                         /\ tasks[t].args[1] \in AccountNames
                   /\ \A p \in AccountNames : \A r \in RegionNames :
                         Cardinality({t \in TasksOf(p) : tasks[t].args[2] = r})
                            = Cardinality(Occurrences(p)) * Count(config.regions[p].list, r)
    /\ (fn = EDT /\ nunits = 0 /\ pc # "entry") =>
          /\ pc = "returned"
          /\ all_resources = << >>
          /\ calls = << >>
          /\ running = {}

C22_Witness ==
    /\ fn = BDT_AWS /\ pc = "returned"
    /\ config.accounts = Listing(<<"dev", "prod">>)
    /\ config.regions["dev"] = Listing(<<"us", "eu">>)
    /\ config.regions["prod"] = Listing(<<"eu">>)
    /\ Len(tasks) = 3
    /\ tasks[2].args = <<"dev", "eu">>
    /\ tasks[3].location = <<"prod", "eu">>

\* C25: in the list execute_discovery_tasks builds and returns, the items of
\* each handled successful task stand next to one another in the order the
\* task returned them; the blocks follow the order of completion, which need
\* not be the order of submission.
C25_ContiguousBlocks ==
    fn = EDT =>
        \A u \in yielded :
            outcome[u].kind = "ok" =>
                \E offset \in 0..(Len(all_resources) - outcome[u].size) :
                    \A k \in 1..outcome[u].size : all_resources[offset + k] = <<u, k>>

C25_Witness ==
    /\ fn = EDT /\ pc = "returned"
    /\ all_resources = <<<<2, 1>>, <<2, 2>>, <<1, 1>>, <<1, 2>>>>

\* The accumulators the three batch functions share between completions.
Accumulators == <<all_resources, completed_tasks, processed_count, success_count, stats>>

\* One iteration of the caller's as_completed loop.
Merge == \E u \in Units : EDT_Collect(u) \/ DAC_Collect(u) \/ EIO_Collect(u)

\* The units whose completion the loop has handled without leaving the function.
Merged == {u \in yielded : outcome[u].kind # "exit"}

\* C23: the accumulators of the three batch functions are written by the
\* caller's loop only, one completion per step: a step of a worker thread
\* leaves them unchanged, a loop step handles exactly one new completion,
\* what the accumulators hold is what the handled completions gave (none is
\* lost), and a waiting completion can be merged whatever calls still run.
C23_SerializedMerge ==
    /\ [][(running' # running \/ outcome' # outcome) => Accumulators' = Accumulators]_vars
    /\ [][yielded' # yielded =>
            (yielded \subseteq yielded' /\ Cardinality(yielded' \ yielded) = 1)]_vars
    /\ [](fn = EDT =>
            /\ completed_tasks = Cardinality(yielded)
            /\ Len(all_resources)
                 = SumOver([u \in Units |-> IF u \in yielded /\ outcome[u].kind = "ok"
                                            THEN outcome[u].size ELSE 0], Units))
    /\ [](fn = DAC =>
            /\ \A u \in Merged : "status" \in DOMAIN stats[u]
            /\ \A u \in futures \ yielded : DOMAIN stats[u] = {"start_time"}
            /\ Len(all_resources)
                 = SumOver([u \in Units |-> IF u \in yielded /\ outcome[u].kind = "ok"
                                            THEN outcome[u].size ELSE 0], Units))
    /\ [](fn = EIO =>
            /\ processed_count = Cardinality(yielded)
            /\ success_count = Cardinality({u \in yielded : outcome[u].kind = "true"}))
    /\ []((fn \in {EDT, DAC, EIO} /\ pc = "collect"
            /\ \E u \in futures : done(u) /\ u \notin yielded) => ENABLED Merge)

C23_Witness ==
    /\ fn = DAC /\ pc = "collect"
    /\ Cardinality(yielded) = 1
    /\ running # {}
    /\ \E u \in futures \ yielded : done(u)
    /\ \E u \in yielded : "status" \in DOMAIN stats[u]

\* What the repository's own entry-points discover() hand to discover_across_clouds.
WiredOutcomes == {discover(o) : o \in TaskOutcomes}

\* C28: a provider whose entry-point is one of the repository's discover()
\* gets a record with status success, the count of the list returned and no
\* error, also when its discovery task raised (the list is then empty); a
\* record with status failed belongs to an entry-point that raised itself,
\* which no discover() of the repository does.
C28_WiredDiscoverAbsorbs ==
    fn = DAC =>
        \A u \in Merged :
            /\ outcome[u] \in WiredOutcomes =>
                  /\ stats[u].status = "success"
                  /\ "error" \notin DOMAIN stats[u]
                  /\ stats[u].count = outcome[u].size
            /\ stats[u].status = "failed" =>
                  /\ outcome[u].kind = "exc"
                  /\ outcome[u] \notin WiredOutcomes

C28_Witness ==
    /\ fn = DAC /\ pc = "returned"
    /\ \E u \in Units :
          /\ outcome[u] = discover(Raised("timeout"))
          /\ stats[u].status = "success"
          /\ stats[u].count = 0
    /\ \E u \in Units : stats[u].status = "failed"

\* C27: a call of execute_discovery_tasks, discover_across_clouds or
\* execute_items_operation whose units all return or raise ends, and it ends
\* by returning: a state where no step of the call is left is a state where
\* the function has returned, for every number of units and of workers.
C27_EventuallyReturns ==
    (fn \in {EDT, DAC, EIO} /\ ~ENABLED Next) => pc = "returned"

\* The candidates whose field `key` is the text t, by position.
PositionsWith(key, t) == {k \in 1..Len(items) : items[k][key] = t}

\* The last position of a non-empty set of positions.
Last(S) == CHOOSE k \in S : \A h \in S : h <= k

\* C29: a token that is no integer and is the id of several candidates
\* selects the last of them in list order; one that is no id and is the name
\* of several candidates selects the last of those; the empty token selects
\* nothing, so a candidate without id (or name) is never selected through
\* its id (or name).
C29_LastDuplicateWins ==
    (fn = FIBI /\ pc = "returned") =>
        LET T == Tokens
            R == ResolvablePos(T)
        IN /\ Len(matching_items) = Cardinality(R)
           /\ \A j \in 1..Len(matching_items) :
                 LET t == T[Nth(R, j)]
                 IN ~IsInteger(t) =>
                       /\ t # << >>
                       /\ matching_items[j] =
                             IF PositionsWith("id", t) # {}
                             THEN items[Last(PositionsWith("id", t))]
                             ELSE items[Last(PositionsWith("name", t))]
           /\ \A k \in 1..Len(T) : T[k] = << >> => k \notin R

C29_Witness ==
    /\ fn = FIBI /\ pc = "returned"
    /\ identifiers = <<"a", ",">>
    /\ Len(items) = 2
    /\ items[1] = [id |-> <<"a">>, name |-> <<"a">>]
    /\ items[2] = [id |-> <<"a">>, name |-> << >>]
    /\ matching_items = <<items[2]>>

----------------------------------------------------------------------------
\* The commands.

\* The behaviour is a run of vm.py or vpc.py.
CommandRun == operation # ""

\* C26: in a run of vm.py or vpc.py, delete is performed only with -i given
\* and resolved to at least one item (and without --refresh); handlers are
\* called only inside a delete, tag or protect operation; with --delete and
\* no -i, with -i resolving to nothing, and with --refresh no handler is
\* called and no such operation is performed; and once one of refresh, delete,
\* tag, protect, list is performed the run performs no other.
C26_DeleteGate ==
    /\ [](CommandRun =>
            /\ operation = "delete" =>
                  (args.delete /\ args.vms # << >> /\ matching_items # << >>
                     /\ ~args.refresh)
            /\ (calls # << >> \/ fn = EIO) => operation \in {"delete", "tag", "protect"}
            /\ (args.delete /\ args.vms = << >>) =>
                  (calls = << >> /\ operation \in {"none", "refresh"})
            /\ (args.vms # << >> /\ ~args.refresh /\ pc \notin {"entry", "filter"}
                  /\ matching_items = << >>) =>
                  (calls = << >> /\ operation = "none")
            /\ args.refresh => (calls = << >> /\ operation \in {"none", "refresh"}))
    /\ [][(CommandRun /\ operation # "none") => operation' = operation]_vars

C26_Witness ==
    /\ operation = "delete"
    /\ pc = "returned"
    /\ args.tag
    /\ Len(calls) = 2
    /\ success_count = 1

\* C24: the core leaves the items alone.  In a command the inventory is
\* never written except by a refresh, the list find_items_by_identifier gives
\* holds records of the candidate list as they are, and
\* execute_items_operation works on that list, entry by entry, without
\* changing it; the result list of execute_discovery_tasks holds only items
\* that a task returned.
C24_ItemsNotMutated ==
    /\ [][(CommandRun /\ operation' # "refresh") => inventory' = inventory]_vars
    /\ [][(CommandRun /\ fn = EIO) =>
            (matching_items' = matching_items /\ items' = items)]_vars
    /\ []((CommandRun /\ pc # "entry" /\ inventory.file = "valid") =>
            \A j \in 1..Len(matching_items) :
                \E k \in 1..Len(inventory.items) :
                    matching_items[j] = inventory.items[k])
    /\ []((CommandRun /\ fn = EIO) =>
            /\ nunits = Len(matching_items)
            /\ \A u \in Units : items[u] = matching_items[u].cloud
            /\ \A c \in 1..Len(calls) : calls[c] \in 1..Len(matching_items))
    /\ [](fn = EDT => \A j \in 1..Len(all_resources) : ReturnedItem(all_resources[j]))

C24_Witness ==
    /\ operation = "tag"
    /\ pc = "returned"
    /\ args.vms = <<"a", ",", "-">>
    /\ Len(matching_items) = 2
    /\ matching_items[2] = azure_vm(<<"-">>, "net")
    /\ Len(calls) = 2

\* The VM record belongs to the network n: same provider, same account,
\* same region where the network has one, and the network is the VM's.
BelongsTo(vm, n) ==
    /\ vm.cloud = n.cloud
    /\ IF n.cloud = "aws"
       THEN vm.profile = n.profile /\ vm.region = n.region /\ vm.vpc_id = n.id
       ELSE IF n.cloud = "azure"
       THEN vm.account_id = n.subscription_id /\ vm.region = n.location
            /\ vm.vpc_id = n.name
       ELSE vm.account_id = n.project_id /\ vm.vpc_id = n.name

\* C30: in refresh_all the VPC discovery starts only after the VM inventory
\* holds what the VM discovery of the same run found, and the vm_count of
\* every network discovered, of AWS, Azure or GCP, is the number of VM
\* records of that inventory that belong to the network.
C30_RefreshAllCounts ==
    fn = REFRESH_ALL =>
        /\ pc \in {"vpc", "returned"} =>
              inventory = save_to_json(all_resources)
        /\ pc = "returned" =>
              \A n \in DOMAIN vpcs :
                  vpcs[n] = Cardinality({k \in 1..Len(inventory.items) :
                                            BelongsTo(inventory.items[k], n)})

====
